---------------------------- MODULE Spec2Model ----------------------------
(***************************************************************************)
(* A model of the training-process orchestrator EBTorchProcess             *)
(* (src/todo.txt, lines 188-707): a pool of worker processes, each behind  *)
(* a message channel, the residency list allLoadedEntries, and the         *)
(* operations that broadcast to the pool or shard work over it.            *)
(*                                                                         *)
(* Pool positions are 0-based as in the JavaScript source; TLA+ sequences  *)
(* are 1-based, so the handle at pool position p is processes[p + 1].      *)
(***************************************************************************)
EXTENDS Integers, Sequences, FiniteSets, TLC

(***************************************************************************)
(* Bounds of the model.                                                    *)
(***************************************************************************)
MaxProcs == 3
NumIds == 2
MaxLen == 4
MaxCalls == 3
MaxEvalCalls == 1
MaxStarts == 1
MaxLogs == 1
MaxFiles == 2
MaxLibs == 2
MaxStr == 2
MaxHist == 2

(***************************************************************************)
(* Constants of the program.                                               *)
(***************************************************************************)
RetryAttempts == 100
TimeoutBetweenRetries == 150
AsciiLength == 128
ByteEnumStop == 255

Ids == 1 .. NumIds
\* The workers there can be: MaxStarts full pools, or more starts of a smaller one.
Workers == 1 .. MaxProcs * MaxStarts

(***************************************************************************)
(* JavaScript helpers used by the source.                                  *)
(***************************************************************************)
Range(s) == {s[i] : i \in 1 .. Len(s)}

Min(a, b) == IF a <= b THEN a ELSE b

Max(a, b) == IF a >= b THEN a ELSE b

\* Array.prototype.indexOf: the 0-based index of the first occurrence, or -1.
IndexOf(list, id) ==
    IF \E i \in 1 .. Len(list) : list[i] = id
    THEN (CHOOSE i \in 1 .. Len(list) :
              list[i] = id /\ \A j \in 1 .. i - 1 : list[j] # id) - 1
    ELSE -1

\* Array.prototype.splice(start, 1): a negative start counts from the end.
Splice1(list, start) ==
    LET from == IF start < 0 THEN Max(Len(list) + start, 0) ELSE Min(start, Len(list))
    IN  [i \in 1 .. (Len(list) - (IF from < Len(list) THEN 1 ELSE 0)) |->
            IF i <= from THEN list[i] ELSE list[i + 1]]

(***************************************************************************)
(* Messages of the wire protocol.                                          *)
(***************************************************************************)
Message(type, id, samples) == [type |-> type, id |-> id, samples |-> samples]

NoReply == [type |-> "none", objects |-> <<>>]

Reply(type, objects) == [type |-> type, objects |-> objects]

\* An object returned by an evaluation: its id and the worker that made it.
Object(id, w) == [id |-> id, from |-> w]

\* JavaScript's undefined, as the value of a result slot.
Undefined == [id |-> 0, from |-> 0]

VARIABLES
    processes,          \* self.processes: the pool's handles, in pool order
    numProcesses,       \* self.numProcesses
    allLoadedEntries,   \* self.allLoadedEntries: the residency list
    channel,            \* per worker: the exchanges pending on its channel
    stored,             \* per worker: the object ids the worker holds
    call,               \* the orchestrator operation in progress or last reported
    prev,               \* the operation reported before it
    written,            \* the messages written by the current operation, in order
    nCalls,             \* operations invoked so far
    proc,               \* per worker: the state of its operating-system process
    spawns,             \* per index of async.times: the state of that spawn
    starts,             \* startProcess calls made so far
    killed,             \* whether killProcess has been called
    pipe,               \* per worker: log messages it wrote that are not read yet
    logged,             \* messages passed to logError so far
    diagrams,           \* the extractNetworkDiagrams call and what it has done
    codegen,            \* the generateCode call and what it has done
    interp              \* a transformValueForNeuralNetwork call: input and output

\* The pool's processes and what the orchestrator observes of them.
poolVars == <<proc, spawns, starts, killed, pipe, logged>>

\* What the operations that do not use the pool work on.
sideVars == <<diagrams, codegen, interp>>

vars == <<processes, numProcesses, allLoadedEntries, channel, stored, call,
          prev, written, nCalls, proc, spawns, starts, killed, pipe, logged,
          diagrams, codegen, interp>>

\* Whether worker w's process is running.
Alive(w) == proc[w] = "running"

\* The handle at 0-based pool position p.
At(p) == processes[p + 1]

ResidencyEmpty ==
    allLoadedEntries = <<>> /\ \A w \in Range(processes) : stored[w] = {}

NoCall ==
    [kind |-> "none", id |-> 0, ids |-> <<>>, status |-> "idle", pos |-> 0,
     batches |-> <<>>, results |-> <<>>, result |-> <<>>,
     acks |-> {}, order |-> <<>>, rejected |-> {}, before |-> <<>>,
     preEmpty |-> TRUE, okBefore |-> TRUE]

Running == call.status = "running"

\* Whether every operation reported so far has succeeded.
AllSucceeded == call.okBefore /\ call.status \in {"idle", "ok"}

\* The record of an operation invoked now.
NewCall(kind, id, ids) ==
    [NoCall EXCEPT !.kind = kind, !.id = id, !.ids = ids,
                   !.before = allLoadedEntries, !.preEmpty = ResidencyEmpty,
                   !.okBefore = AllSucceeded]

(***************************************************************************)
(* The message channel of one worker (EBStdioJSONStreamProcess):           *)
(* writeAndWaitForMatchingOutput(message, expected) writes the message and *)
(* leaves an exchange pending until a reply of the expected type arrives.  *)
(***************************************************************************)
Exchange(msg, expect, slot, c) ==
    [msg |-> msg, expect |-> expect, reply |-> NoReply, slot |-> slot, call |-> c]

\* The channels after call c asks position p's handle msg, expecting a reply type.
WriteAndWait(chan, p, msg, expect, c) ==
    [chan EXCEPT ![At(p)] = Append(@, Exchange(msg, expect, p, c))]

\* The record of one write: the pool position written to and the message.
Written(p, msg) == [to |-> p, msg |-> msg]

RECURSIVE WriteEach(_, _, _, _)
\* The channels after call c has written the messages ws, each to its position.
WriteEach(chan, ws, expect, c) ==
    IF ws = <<>>
    THEN chan
    ELSE WriteEach(WriteAndWait(chan, Head(ws).to, Head(ws).msg, expect, c),
                   Tail(ws), expect, c)

(***************************************************************************)
(* Broadcasts: Promise.each(self.processes, ...) asks one handle after the *)
(* other, in pool order, and resolves after the last one has answered.     *)
(***************************************************************************)
\* A variant of EachDone that resolves on the first reply.
EachDoneFirst(pos, n) == TRUE

\* A variant of EachDone that resolves one reply early.
EachDoneEarly(pos, n) == pos + 2 >= n

\* Whether the reply of position pos was the last one of a pool of n handles.
EachDone(pos, n) == pos + 1 >= n

\* loadObject's continuation: self.allLoadedEntries.push(id).
ThenOfLoad(list, id) == Append(list, id)

\* A variant of ThenOfBroadcast whose other operations empty the list.
ThenOfBroadcastClears(kind, list, id) ==
    CASE kind = "loadObject" -> Append(list, id)
      [] OTHER -> <<>>

\* A variant of ThenOfRemove that removes the entry after the one found.
ThenOfRemoveNext(list, id) == Splice1(list, IndexOf(list, id) + 1)

\* removeObject's continuation:
\* self.allLoadedEntries.splice(self.allLoadedEntries.indexOf(id), 1).
ThenOfRemove(list, id) == Splice1(list, IndexOf(list, id))

ThenOfBroadcast(kind, list, id) ==
    CASE kind = "loadObject" -> ThenOfLoad(list, id)
      [] kind = "removeObject" -> ThenOfRemove(list, id)
      [] OTHER -> list

\* The request and the expected reply type of each broadcast.
RequestOf(kind, id) ==
    CASE kind = "loadObject" -> Message("store", id, <<>>)
      [] kind = "removeObject" -> Message("forget", id, <<>>)
      [] kind = "reset" -> Message("reset", 0, <<>>)
      [] kind = "loadModelFile" -> Message("load", 0, <<>>)
      [] kind = "startProcess" -> Message("handshake", 0, <<>>)
      [] kind = "processBatch" -> Message("evaluateBatch", 0, <<>>)
      [] kind = "executeTrainingIteration" -> Message("iteration", 0, <<>>)
      [] kind = "prepareBatch" -> Message("prepareBatch", 0, <<>>)
      [] kind = "getTorchModelFileStream" -> Message("save", 0, <<>>)
      [] kind = "getInternalStatistics" -> Message("stats", 0, <<>>)
      [] OTHER -> Message(kind, 0, <<>>)

ExpectOf(kind) ==
    CASE kind = "loadObject" -> "stored"
      [] kind = "removeObject" -> "forgotten"
      [] kind = "processObjects" -> "evaluationCompleted"
      [] kind = "reset" -> "resetCompleted"
      [] kind = "loadModelFile" -> "loaded"
      [] kind = "startProcess" -> "handshake"
      [] kind = "processBatch" -> "evaluationCompleted"
      [] kind = "executeTrainingIteration" -> "iterationCompleted"
      [] kind = "prepareBatch" -> "batchPrepared"
      [] kind = "getTorchModelFileStream" -> "saved"
      [] kind = "getInternalStatistics" -> "stats"
      [] OTHER -> kind

\* What is remembered of an operation once the next one is invoked.
Summary(c) ==
    [kind |-> c.kind, id |-> c.id, status |-> c.status, preEmpty |-> c.preEmpty]

\* A variant of EachWrites that asks all n handles at once (a Promise.map).
EachWritesAll(n, msg) == [k \in 1 .. n |-> Written(k - 1, msg)]

\* What Promise.each writes when it is called on n handles: it asks the first
\* handle only; every later handle is asked when the one before has answered.
EachWrites(n, msg) == IF n = 0 THEN <<>> ELSE <<Written(0, msg)>>

\* The caller invokes a broadcast operation on the pool.
Broadcast(kind, id) ==
    /\ ~Running
    /\ nCalls < MaxCalls
    /\ nCalls' = nCalls + 1
    /\ prev' = Summary(call)
    /\ IF Len(processes) = 0
       THEN /\ call' = [NewCall(kind, id, <<>>) EXCEPT !.status = "ok"]
            /\ allLoadedEntries' = ThenOfBroadcast(kind, allLoadedEntries, id)
            /\ written' = <<>>
            /\ UNCHANGED channel
       ELSE /\ call' = [NewCall(kind, id, <<>>) EXCEPT !.status = "running"]
            /\ channel' = WriteEach(channel,
                                    EachWrites(Len(processes), RequestOf(kind, id)),
                                    ExpectOf(kind), nCalls')
            /\ written' = EachWrites(Len(processes), RequestOf(kind, id))
            /\ UNCHANGED allLoadedEntries
    /\ UNCHANGED <<processes, numProcesses, stored>>
    /\ UNCHANGED poolVars
    /\ UNCHANGED sideVars

\* loadObject(id, input, output)
LoadObject(id) == Broadcast("loadObject", id)

\* removeObject(id)
RemoveObject(id) == Broadcast("removeObject", id)

\* reset()
Reset == Broadcast("reset", 0)

\* loadModelFile()
LoadModelFile == Broadcast("loadModelFile", 0)

\* The reply of position x.slot arrives for the running broadcast.
BroadcastReplied(x, chan) ==
    IF EachDone(call.pos, Len(processes))
    THEN /\ call' = [call EXCEPT !.status = "ok", !.acks = @ \cup {x.slot}]
         /\ allLoadedEntries' = ThenOfBroadcast(call.kind, allLoadedEntries, call.id)
         /\ channel' = chan
         /\ UNCHANGED written
    ELSE /\ call' = [call EXCEPT !.pos = @ + 1, !.acks = @ \cup {x.slot}]
         /\ channel' = WriteAndWait(chan, call.pos + 1, x.msg, x.expect, nCalls)
         /\ written' = Append(written, Written(call.pos + 1, x.msg))
         /\ UNCHANGED allLoadedEntries


(***************************************************************************)
(* processObjects(ids): shard the ids over the pool, evaluate the shards   *)
(* concurrently and put the returned objects back in the order of ids.     *)
(***************************************************************************)
\* A variant of BucketOf that is off by one.
BucketOfShifted(index, n) == (index + 1) % n

\* The 0-based bucket of the id at 0-based position index, for n handles.
BucketOf(index, n) == index % n

RECURSIVE Distribute(_, _, _)
\* ids.forEach((id, index) => processBatches[index % length].samples.push(id))
Distribute(ids, index, batches) ==
    IF index >= Len(ids)
    THEN batches
    ELSE Distribute(ids, index + 1,
                    [batches EXCEPT ![BucketOf(index, Len(batches)) + 1] =
                         Append(@, ids[index + 1])])

\* The samples list of every pool position, in pool order.
ProcessBatches(ids, n) == Distribute(ids, 0, [p \in 1 .. n |-> <<>>])

\* A variant of DispatchPositions that also asks the positions with no samples.
DispatchAll(batches) == 0 .. Len(batches) - 1

\* The pool positions an evaluate message is written to: a position whose
\* samples list is empty is answered at once with no objects.
DispatchPositions(batches) ==
    {p \in 0 .. Len(batches) - 1 : Len(batches[p + 1]) # 0}

EmptyResult == [type |-> "empty", objects |-> <<>>]

\* A variant of EvaluateWrites that asks one position at a time (a series):
\* only the first non-empty samples list is written when the call is made.
EvaluateWritesSeries(batches, p) ==
    LET asked == {q \in p .. Len(batches) - 1 : Len(batches[q + 1]) # 0}
    IN  IF asked = {}
        THEN <<>>
        ELSE LET q == CHOOSE q \in asked : \A r \in asked : q <= r
             IN  <<Written(q, Message("evaluate", 0, batches[q + 1]))>>

RECURSIVE EvaluateWrites(_, _)
\* The evaluate messages async.map writes, in pool order, from position p on.
EvaluateWrites(batches, p) ==
    IF p >= Len(batches)
    THEN <<>>
    ELSE (IF p \in DispatchPositions(batches)
          THEN <<Written(p, Message("evaluate", 0, batches[p + 1]))>>
          ELSE <<>>) \o EvaluateWrites(batches, p + 1)

RECURSIVE MergeObjects(_, _)
\* processResults.objects.forEach((object) => allResults[object.id] = object)
MergeObjects(all, objects) ==
    IF objects = <<>>
    THEN all
    ELSE MergeObjects([all EXCEPT ![Head(objects).id] = Head(objects)],
                      Tail(objects))

RECURSIVE MergeResults(_, _)
\* results.forEach((processResults) => ...)
MergeResults(all, results) ==
    IF results = <<>>
    THEN all
    ELSE MergeResults(MergeObjects(all, Head(results).objects), Tail(results))

\* The slot of an id: allResults[id]
SlotOf(all, id) == all[id]

RECURSIVE Concat(_)
Concat(results) ==
    IF results = <<>> THEN <<>> ELSE Head(results).objects \o Concat(Tail(results))

\* A variant of ResultList that returns the objects in the order of arrival
\* per pool position instead of the order of ids.
ResultListConcat(ids, results) == Concat(results)

\* A variant of ResultList that leaves out the ids no worker returned.
ResultListCompact(ids, results) ==
    LET allResults == MergeResults([id \in Ids |-> Undefined], results)
        found == SelectSeq(ids, LAMBDA id : SlotOf(allResults, id) # Undefined)
    IN  [i \in 1 .. Len(found) |-> SlotOf(allResults, found[i])]

\* ids.map((id) => allResults[id])
ResultList(ids, results) ==
    LET allResults == MergeResults([id \in Ids |-> Undefined], results)
    IN  [i \in 1 .. Len(ids) |-> SlotOf(allResults, ids[i])]

\* Whether async.map has a result for every position.
AllAnswered(results) == \A j \in 1 .. Len(results) : results[j] # NoReply

\* The caller invokes processObjects(ids).
ProcessObjects(ids) ==
    /\ ~Running
    /\ nCalls < MaxEvalCalls
    /\ Len(processes) >= 1
    /\ nCalls' = nCalls + 1
    /\ prev' = Summary(call)
    /\ LET batches == ProcessBatches(ids, Len(processes))
           writes == EvaluateWrites(batches, 0)
           asked == {writes[i].to : i \in 1 .. Len(writes)}
           results == [j \in 1 .. Len(batches) |->
                          IF j - 1 \in asked THEN NoReply ELSE EmptyResult]
           done == AllAnswered(results)
       IN  /\ call' = [NewCall("processObjects", 0, ids) EXCEPT
                          !.status = IF done THEN "ok" ELSE "running",
                          !.batches = batches, !.results = results,
                          !.result = IF done THEN ResultList(ids, results) ELSE <<>>]
           /\ written' = writes
           /\ channel' = WriteEach(channel, writes, ExpectOf("processObjects"),
                                   nCalls')
    /\ UNCHANGED <<processes, numProcesses, allLoadedEntries, stored>>
    /\ UNCHANGED poolVars
    /\ UNCHANGED sideVars

\* A variant of StoreResult that keeps the results in the order of arrival:
\* the reply goes to the first place that has no result yet.
StoreResultOnArrival(results, slot, reply) ==
    LET free == {j \in 1 .. Len(results) : results[j] = NoReply}
        first == CHOOSE j \in free : \A k \in free : j <= k
    IN  [results EXCEPT ![first] = reply]

\* async.map keeps the result of an item at the index of the item, whenever
\* its next(null, result) is called.
StoreResult(results, slot, reply) == [results EXCEPT ![slot + 1] = reply]

\* The evaluationCompleted reply of position x.slot arrives for the running call.
EvaluateReplied(x, chan) ==
    LET results == StoreResult(call.results, x.slot, x.reply)
        done == AllAnswered(results)
    IN  /\ call' = [call EXCEPT
                       !.results = results, !.acks = @ \cup {x.slot},
                       !.order = Append(@, x.slot),
                       !.status = IF done THEN "ok" ELSE "running",
                       !.result = IF done THEN ResultList(call.ids, results)
                                          ELSE <<>>]
        /\ channel' = chan
        /\ UNCHANGED <<allLoadedEntries, written>>

(***************************************************************************)
(* The operations on one worker: processBatch, executeTrainingIteration,   *)
(* prepareBatch, getTorchModelFileStream and getInternalStatistics ask     *)
(* self.processes[0].                                                      *)
(***************************************************************************)
SingleKinds ==
    {"processBatch", "executeTrainingIteration", "prepareBatch",
     "getTorchModelFileStream", "getInternalStatistics"}

\* A variant of SingleTarget that asks the last handle of the pool.
SingleTargetLast(n) == n - 1

\* The pool position these operations ask, for a pool of n handles.
SingleTarget(n) == 0

\* The read stream over path.join(self.scriptFolder, 'model.t7').
Stream == "model.t7"

\* A variant of ThenOfSingle that hands nothing to the caller.
ThenOfSingleNothing(kind, reply) == <<>>

\* What the operation hands to its caller when the reply has arrived.
ThenOfSingle(kind, reply) ==
    CASE kind = "getTorchModelFileStream" -> <<Stream>>
      [] kind = "processBatch" -> reply.objects
      [] kind = "getInternalStatistics" -> reply.objects
      [] OTHER -> <<reply>>

\* The caller invokes one of the single-worker operations.
SingleOp(kind) ==
    /\ ~Running
    /\ nCalls < MaxCalls
    /\ nCalls' = nCalls + 1
    /\ prev' = Summary(call)
    /\ IF Len(processes) = 0
       THEN /\ call' = [NewCall(kind, 0, <<>>) EXCEPT !.status = "failed"]
            /\ written' = <<>>
            /\ UNCHANGED channel
       ELSE /\ call' = [NewCall(kind, 0, <<>>) EXCEPT !.status = "running"]
            /\ channel' = WriteAndWait(channel, SingleTarget(Len(processes)),
                                       RequestOf(kind, 0), ExpectOf(kind), nCalls')
            /\ written' = <<Written(SingleTarget(Len(processes)),
                                    RequestOf(kind, 0))>>
    /\ UNCHANGED <<processes, numProcesses, allLoadedEntries, stored>>
    /\ UNCHANGED poolVars
    /\ UNCHANGED sideVars

\* The reply of the asked worker arrives for the running operation.
SingleReplied(x, chan) ==
    /\ call' = [call EXCEPT !.status = "ok", !.acks = @ \cup {x.slot},
                            !.result = ThenOfSingle(call.kind, x.reply)]
    /\ channel' = chan
    /\ UNCHANGED <<allLoadedEntries, written>>

(***************************************************************************)
(* The channel delivers a reply, or fails an exchange.                     *)
(***************************************************************************)
\* Whether exchange x still has a continuation waiting in the orchestrator.
Awaited(x) == Running /\ x.call = nCalls

\* The reply of the oldest exchange of worker w's channel is delivered.
Deliver(w) ==
    /\ channel[w] # <<>>
    /\ Head(channel[w]).reply # NoReply
    /\ Head(channel[w]).reply.type = Head(channel[w]).expect
    /\ LET x == Head(channel[w])
           chan == [channel EXCEPT ![w] = Tail(@)]
       IN  IF Awaited(x)
           THEN IF call.kind = "processObjects"
                THEN EvaluateReplied(x, chan)
                ELSE IF call.kind \in SingleKinds
                     THEN SingleReplied(x, chan)
                     ELSE BroadcastReplied(x, chan)
           ELSE /\ channel' = chan
                /\ UNCHANGED <<allLoadedEntries, call, written>>
    /\ UNCHANGED <<processes, numProcesses, stored, prev, nCalls>>
    /\ UNCHANGED poolVars
    /\ UNCHANGED sideVars

\* A variant of Rejected that swallows the error and reports success.
RejectedSwallowed(c, slot) ==
    [c EXCEPT !.status = "ok", !.pos = slot, !.rejected = @ \cup {slot}]

\* The operation after the exchange of position slot has rejected: neither
\* Promise.each nor async.map goes on, and the caller is told of the error.
Rejected(c, slot) ==
    [c EXCEPT !.status = "failed", !.pos = slot, !.rejected = @ \cup {slot}]

\* The oldest exchange of worker w's channel fails (its promise rejects).
ExchangeFails(w) ==
    /\ channel[w] # <<>>
    /\ LET x == Head(channel[w])
       IN  /\ channel' = [channel EXCEPT ![w] = Tail(@)]
           /\ call' = IF Awaited(x)
                      THEN Rejected(call, x.slot)
                      ELSE IF x.call = nCalls
                           THEN [call EXCEPT !.rejected = @ \cup {x.slot}]
                           ELSE call
    /\ UNCHANGED <<processes, numProcesses, allLoadedEntries, stored, prev,
                   written, nCalls>>
    /\ UNCHANGED poolVars
    /\ UNCHANGED sideVars

(***************************************************************************)
(* The worker process: it answers the requests of its channel in order.    *)
(***************************************************************************)
\* The 1-based place of the oldest unanswered exchange of worker w, or 0.
NextRequest(w) ==
    IF \E i \in 1 .. Len(channel[w]) : channel[w][i].reply = NoReply
    THEN CHOOSE i \in 1 .. Len(channel[w]) :
             /\ channel[w][i].reply = NoReply
             /\ \A j \in 1 .. i - 1 : channel[w][j].reply # NoReply
    ELSE 0

Answer(w, reply) ==
    channel' = [channel EXCEPT ![w][NextRequest(w)].reply = reply]

\* store: the worker keeps the object and answers stored.
WorkerStores(w) ==
    /\ Alive(w)
    /\ NextRequest(w) # 0
    /\ channel[w][NextRequest(w)].msg.type = "store"
    /\ stored' = [stored EXCEPT ![w] = @ \cup {channel[w][NextRequest(w)].msg.id}]
    /\ Answer(w, Reply("stored", <<>>))
    /\ UNCHANGED <<processes, numProcesses, allLoadedEntries, call, prev,
                   written, nCalls>>
    /\ UNCHANGED poolVars
    /\ UNCHANGED sideVars

\* forget: the worker drops the object and answers forgotten.
WorkerForgets(w) ==
    /\ Alive(w)
    /\ NextRequest(w) # 0
    /\ channel[w][NextRequest(w)].msg.type = "forget"
    /\ stored' = [stored EXCEPT ![w] = @ \ {channel[w][NextRequest(w)].msg.id}]
    /\ Answer(w, Reply("forgotten", <<>>))
    /\ UNCHANGED <<processes, numProcesses, allLoadedEntries, call, prev,
                   written, nCalls>>
    /\ UNCHANGED poolVars
    /\ UNCHANGED sideVars

\* The objects a worker returns for the samples whose ids are in keep.
ObjectsFor(samples, keep, w) ==
    LET kept == SelectSeq(samples, LAMBDA s : s \in keep)
    IN  [i \in 1 .. Len(kept) |-> Object(kept[i], w)]

\* evaluate: the worker answers evaluationCompleted with the objects it made.
WorkerEvaluates(w) ==
    /\ Alive(w)
    /\ NextRequest(w) # 0
    /\ channel[w][NextRequest(w)].msg.type = "evaluate"
    /\ \E keep \in SUBSET Range(channel[w][NextRequest(w)].msg.samples) :
           Answer(w, Reply("evaluationCompleted",
                           ObjectsFor(channel[w][NextRequest(w)].msg.samples,
                                      keep, w)))
    /\ UNCHANGED <<processes, numProcesses, allLoadedEntries, stored, call,
                   prev, written, nCalls>>
    /\ UNCHANGED poolVars
    /\ UNCHANGED sideVars

\* The reply type the worker gives to a request that changes no object.
ReplyTypeOf(type) ==
    CASE type = "reset" -> "resetCompleted"
      [] type = "load" -> "loaded"
      [] type = "handshake" -> "handshake"
      [] type = "evaluateBatch" -> "evaluationCompleted"
      [] type = "iteration" -> "iterationCompleted"
      [] type = "prepareBatch" -> "batchPrepared"
      [] type = "save" -> "saved"
      [] type = "stats" -> "stats"
      [] OTHER -> "none"

\* The requests a worker answers without changing the objects it holds.
PlainRequests ==
    {"reset", "load", "handshake", "evaluateBatch", "iteration", "prepareBatch",
     "save", "stats"}

\* reset, load, handshake and the single-worker requests: the worker answers.
WorkerAnswers(w) ==
    /\ Alive(w)
    /\ NextRequest(w) # 0
    /\ channel[w][NextRequest(w)].msg.type \in PlainRequests
    /\ Answer(w, Reply(ReplyTypeOf(channel[w][NextRequest(w)].msg.type), <<>>))
    /\ UNCHANGED <<processes, numProcesses, allLoadedEntries, stored, call,
                   prev, written, nCalls>>
    /\ UNCHANGED poolVars
    /\ UNCHANGED sideVars

\* The worker writes a log message to its output while a request is pending.
WorkerLogs(w) ==
    /\ Alive(w)
    /\ channel[w] # <<>>
    /\ pipe[w] = 0
    /\ logged < MaxLogs
    /\ pipe' = [pipe EXCEPT ![w] = @ + 1]
    /\ UNCHANGED <<processes, numProcesses, allLoadedEntries, channel, stored,
                   call, prev, written, nCalls, proc, spawns, starts, killed,
                   logged>>
    /\ UNCHANGED sideVars

\* The worker's process ends unexpectedly.
WorkerCrashes(w) ==
    /\ Alive(w)
    /\ proc' = [proc EXCEPT ![w] = "dying"]
    /\ UNCHANGED <<processes, numProcesses, allLoadedEntries, channel, stored,
                   call, prev, written, nCalls, spawns, starts, killed, pipe,
                   logged>>
    /\ UNCHANGED sideVars

(***************************************************************************)
(* The handlers startProcess attaches to every process, and killProcess.   *)
(***************************************************************************)
\* A variant of OnData that passes nothing to logError.
OnDataSilent(data, n) == n

\* process.outputStream.on('data'): a message of type log goes to logError.
OnData(data, n) == IF data.type = "log" THEN n + 1 ELSE n

\* process.on('close' / 'disconnect' / 'error' / 'exit'): logError, no more.
OnProcessEvent(n) == n + 1

\* Whether a message read from the channel resolves the pending exchange x.
Resolves(x, data) == data.type = x.expect

\* A log message of worker w is read from its output.
LogArrives(w) ==
    /\ pipe[w] > 0
    /\ pipe' = [pipe EXCEPT ![w] = @ - 1]
    /\ logged' = OnData(Reply("log", <<>>), logged)
    /\ channel' = IF channel[w] # <<>> /\ Resolves(Head(channel[w]), Reply("log", <<>>))
                  THEN [channel EXCEPT ![w] = Tail(@)]
                  ELSE channel
    /\ UNCHANGED <<processes, numProcesses, allLoadedEntries, stored, call,
                   prev, written, nCalls, proc, spawns, starts, killed>>
    /\ UNCHANGED sideVars

\* A variant of PoolAfterEvent that drops the handle of the ended process.
PoolAfterEventDropped(pool, w) == SelectSeq(pool, LAMBDA h : h # w)

\* self.processes after a process event: the handlers do not touch it.
PoolAfterEvent(pool, w) == pool

\* The exit of worker w's process is reported to the orchestrator.
ExitEvent(w) ==
    /\ proc[w] = "dying"
    /\ proc' = [proc EXCEPT ![w] = "gone"]
    /\ logged' = OnProcessEvent(logged)
    /\ processes' = PoolAfterEvent(processes, w)
    /\ UNCHANGED <<numProcesses, allLoadedEntries, channel, stored,
                   call, prev, written, nCalls, spawns, starts, killed, pipe>>
    /\ UNCHANGED sideVars

\* A variant of KillAll that ends the process of pool position 0 only.
KillFirst(pool, ps) ==
    [w \in DOMAIN ps |->
        IF pool # <<>> /\ w = pool[1] /\ ps[w] = "running" THEN "dying" ELSE ps[w]]

\* Promise.each(self.processes, (process) => process.process.kill())
KillAll(pool, ps) ==
    [w \in DOMAIN ps |->
        IF w \in Range(pool) /\ ps[w] = "running" THEN "dying" ELSE ps[w]]

\* A variant of PoolAfterKill that empties the pool.
PoolAfterKillEmptied(pool) == <<>>

\* self.processes after killProcess: no handle is removed from it.
PoolAfterKill(pool) == pool

\* killProcess()
KillProcess ==
    /\ ~killed
    /\ killed' = TRUE
    /\ proc' = KillAll(processes, proc)
    /\ processes' = PoolAfterKill(processes)
    /\ UNCHANGED <<numProcesses, allLoadedEntries, channel, stored,
                   call, prev, written, nCalls, spawns, starts, pipe, logged>>
    /\ UNCHANGED sideVars

(***************************************************************************)
(* startProcess(): async.times spawns numProcesses workers concurrently,   *)
(* then the handshake is made with every handle of self.processes in turn. *)
(***************************************************************************)
\* The worker that the spawn of index n launches (index argument n + 1):
\* every call of startProcess launches numProcesses new workers.
WorkerOf(n) == (starts - 1) * numProcesses + n + 1

\* A variant of TimesDone that is satisfied by the first spawn that completes.
TimesDoneAny(sp, n) == \E k \in 0 .. n - 1 : sp[k] = "done"

\* Whether async.times has seen every one of its n spawns complete.
TimesDone(sp, n) == \A k \in 0 .. n - 1 : sp[k] = "done"

\* The caller invokes startProcess().
StartProcess ==
    /\ ~Running
    /\ (starts + 1) * numProcesses <= Cardinality(Workers)
    /\ nCalls < MaxCalls
    /\ numProcesses >= 1
    /\ \A n \in DOMAIN spawns : spawns[n] # "spawning"
    /\ starts' = starts + 1
    /\ nCalls' = nCalls + 1
    /\ prev' = Summary(call)
    /\ call' = [NewCall("startProcess", 0, <<>>) EXCEPT !.status = "running"]
    /\ spawns' = [n \in DOMAIN spawns |->
                      IF n < numProcesses THEN "spawning" ELSE "idle"]
    /\ written' = <<>>
    /\ UNCHANGED <<processes, numProcesses, allLoadedEntries, channel, stored,
                   proc, killed, pipe, logged>>
    /\ UNCHANGED sideVars

\* Whether startProcess is still waiting for its spawns.
Spawning == Running /\ call.kind = "startProcess" /\ written = <<>>

\* The spawn of index n completes: its handle is pushed and, when it was the
\* last one, the handshake starts with the handle at pool position 0.
SpawnCompletes(n) ==
    /\ spawns[n] = "spawning"
    /\ spawns' = [spawns EXCEPT ![n] = "done"]
    /\ processes' = Append(processes, WorkerOf(n))
    /\ proc' = [proc EXCEPT ![WorkerOf(n)] = "running"]
    /\ IF Spawning /\ TimesDone(spawns', numProcesses)
       THEN /\ channel' = [channel EXCEPT ![processes'[1]] =
                               Append(@, Exchange(RequestOf("startProcess", 0),
                                                  ExpectOf("startProcess"), 0,
                                                  nCalls))]
            /\ written' = <<Written(0, RequestOf("startProcess", 0))>>
       ELSE UNCHANGED <<channel, written>>
    /\ UNCHANGED <<numProcesses, allLoadedEntries, stored, call, prev, nCalls,
                   starts, killed, pipe, logged>>
    /\ UNCHANGED sideVars

\* The spawn of index n fails: async.times reports the error at once.
SpawnFails(n) ==
    /\ spawns[n] = "spawning"
    /\ spawns' = [spawns EXCEPT ![n] = "failed"]
    /\ call' = IF Spawning THEN Rejected(call, n) ELSE call
    /\ UNCHANGED <<processes, numProcesses, allLoadedEntries, channel, stored,
                   prev, written, nCalls, proc, starts, killed, pipe, logged>>
    /\ UNCHANGED sideVars

(***************************************************************************)
(* extractNetworkDiagrams(): async.retry lists the script folder until it  *)
(* holds .dot files, then renders every one of them with dot.              *)
(***************************************************************************)
\* The files the script folder may hold, in the order readdir lists them.
FolderFiles ==
    <<[name |-> "a", ext |-> "dot"], [name |-> "b", ext |-> "dot"],
      [name |-> "c", ext |-> "txt"]>>

\* The listings readdir may give: the files that are there at that moment.
Listings ==
    {SelectSeq(FolderFiles, LAMBDA f : f \in there) :
        there \in SUBSET Range(FolderFiles)}

\* /^.*\.dot$/.test(file)
IsDotFile(file) == file.ext = "dot"

\* underscore.filter(files, (file) => (/^.*\.dot$/g).test(file))
DotFiles(files) == SelectSeq(files, IsDotFile)

\* The standard output of a dot invocation, as bytes.
RenderOutputs == {<<60>>, <<60, 115, 118, 103>>}

\* The character '=' that pads a base64 text.
Pad == 64

RECURSIVE Base64(_)
\* new Buffer(result).toString('base64'): three bytes give four sextets.
Base64(bytes) ==
    IF Len(bytes) = 0
    THEN <<>>
    ELSE IF Len(bytes) = 1
    THEN <<bytes[1] \div 4, (bytes[1] % 4) * 16, Pad, Pad>>
    ELSE IF Len(bytes) = 2
    THEN <<bytes[1] \div 4, (bytes[1] % 4) * 16 + bytes[2] \div 16,
           (bytes[2] % 16) * 4, Pad>>
    ELSE <<bytes[1] \div 4, (bytes[1] % 4) * 16 + bytes[2] \div 16,
           (bytes[2] % 16) * 4 + bytes[3] \div 64, bytes[3] % 64>>
         \o Base64(SubSeq(bytes, 4, Len(bytes)))

NoDiagrams ==
    [status |-> "idle", attempts |-> 0, delays |-> 0, listing |-> <<>>,
     renders |-> <<>>, result |-> <<>>, cause |-> "none", onlyEmpty |-> TRUE,
     failures |-> 0]

\* A rendering that has not called back yet, and one that failed.
Pending == <<-1>>

RenderError == <<-2>>

\* A variant of RetryAgain that gives up one attempt early.
RetryAgainShort(attempts) == attempts < RetryAttempts - 1

\* async.retry(retryAttempts, ...): whether a failed attempt is followed by
\* another one.
RetryAgain(attempts) == attempts < RetryAttempts

\* The call after an attempt has failed: async.retry starts the next attempt
\* at once, or reports the error of the last attempt.
AttemptFailed(d, cause) ==
    IF RetryAgain(d.attempts)
    THEN [d EXCEPT !.status = "listing", !.attempts = @ + 1, !.cause = cause,
                   !.onlyEmpty = @ /\ cause = "noFiles"]
    ELSE [d EXCEPT !.status = "failed", !.cause = cause,
                   !.onlyEmpty = @ /\ cause = "noFiles",
                   !.failures = @ + 1]

\* The caller invokes extractNetworkDiagrams().
ExtractNetworkDiagrams ==
    /\ diagrams.status = "idle"
    /\ diagrams' = [diagrams EXCEPT !.status = "listing", !.attempts = 1]
    /\ UNCHANGED <<processes, numProcesses, allLoadedEntries, channel, stored,
                   call, prev, written, nCalls, codegen, interp>>
    /\ UNCHANGED poolVars

\* fs.readdir calls back with an error.
ReaddirFails ==
    /\ diagrams.status = "listing"
    /\ diagrams' = AttemptFailed(diagrams, "readError")
    /\ UNCHANGED <<processes, numProcesses, allLoadedEntries, channel, stored,
                   call, prev, written, nCalls, codegen, interp>>
    /\ UNCHANGED poolVars

\* fs.readdir calls back with the listing files: without .dot files the
\* timer is set, with .dot files dot is started for every one of them.
Readdir(files) ==
    /\ diagrams.status = "listing"
    /\ diagrams' =
           IF Len(DotFiles(files)) = 0
           THEN [diagrams EXCEPT !.status = "waiting", !.listing = <<>>,
                                 !.renders = <<>>, !.cause = "none"]
           ELSE [diagrams EXCEPT !.status = "rendering", !.cause = "none",
                                 !.listing = DotFiles(files),
                                 !.renders = [i \in 1 .. Len(DotFiles(files)) |->
                                                 Pending]]
    /\ UNCHANGED <<processes, numProcesses, allLoadedEntries, channel, stored,
                   call, prev, written, nCalls, codegen, interp>>
    /\ UNCHANGED poolVars

\* The timer of timeoutBetweenRetries fires: the attempt fails.
TimerFires ==
    /\ diagrams.status = "waiting"
    /\ diagrams' = AttemptFailed([diagrams EXCEPT !.delays = @ + 1], "noFiles")
    /\ UNCHANGED <<processes, numProcesses, allLoadedEntries, channel, stored,
                   call, prev, written, nCalls, codegen, interp>>
    /\ UNCHANGED poolVars

\* The records async.map hands over: one per .dot file, in listing order.
DiagramRecords(listing, renders) ==
    [i \in 1 .. Len(listing) |->
        [file |-> listing[i], data |-> Base64(renders[i])]]

\* dot has rendered the i-th .dot file of the listing.
Rendered(i, output) ==
    /\ diagrams.status = "rendering"
    /\ diagrams.renders[i] = Pending
    /\ LET renders == [diagrams.renders EXCEPT ![i] = output]
       IN  diagrams' =
               IF \A j \in 1 .. Len(renders) : renders[j] # Pending
               THEN [diagrams EXCEPT !.status = "ok", !.renders = renders,
                                     !.result = DiagramRecords(diagrams.listing,
                                                               renders)]
               ELSE [diagrams EXCEPT !.renders = renders]
    /\ UNCHANGED <<processes, numProcesses, allLoadedEntries, channel, stored,
                   call, prev, written, nCalls, codegen, interp>>
    /\ UNCHANGED poolVars

\* dot has failed on the i-th .dot file: async.map reports the first error,
\* and with it the attempt fails.
RenderFails(i) ==
    /\ diagrams.status = "rendering"
    /\ diagrams.renders[i] = Pending
    /\ diagrams' = AttemptFailed([diagrams EXCEPT !.renders[i] = RenderError],
                                 "renderError")
    /\ UNCHANGED <<processes, numProcesses, allLoadedEntries, channel, stored,
                   call, prev, written, nCalls, codegen, interp>>
    /\ UNCHANGED poolVars

(***************************************************************************)
(* generateCode(): async.series of writeGeneratedFiles, writeLibraryFiles  *)
(* and writeElectricBrainLibrary; the callback settles the promise.        *)
(***************************************************************************)
\* The name of the i-th generated file (file.path) and of the k-th file of
\* lib/lua (filename), as they are joined to the script folder.
GeneratedFile(i) == <<"generated", i>>

LibraryFile(k) == <<"lib", k>>

NoCodegen ==
    [status |-> "idle", phase |-> "none", files |-> 0, libs |-> 0, at |-> 0,
     reading |-> FALSE, totalFiles |-> 0, failure |-> "none", reported |-> 0,
     folder |-> {}]

\* The call after next(err), or after the final callback(err): rejected.
CodegenRejected(c, failure) ==
    [c EXCEPT !.status = "rejected", !.phase = "done", !.failure = failure]

\* The call after a write of Promise.each has failed: writeFilePromise is
\* rejected, and writeFilePromise.then(() => next()) has no handler for it.
WriteRejected(c) ==
    [c EXCEPT !.phase = "stuck", !.failure = "writeGenerated"]

\* The call after next() of the library phase that has phase as its name:
\* async.series starts the following task or makes the final callback.
RECURSIVE SeriesNext(_)
SeriesNext(c) ==
    IF c.phase = "generated"
    THEN IF c.libs = 0
         THEN SeriesNext([c EXCEPT !.phase = "library"])
         ELSE [c EXCEPT !.phase = "library", !.at = 0, !.reading = TRUE]
    ELSE IF c.phase = "library"
    THEN IF c.libs = 0
         THEN SeriesNext([c EXCEPT !.phase = "ebLibrary"])
         ELSE [c EXCEPT !.phase = "ebLibrary", !.at = 0, !.reading = TRUE]
    ELSE [c EXCEPT !.status = "resolved", !.phase = "done",
                   !.reported = c.totalFiles]

\* The caller invokes generateCode(registry, dispatch), at a time when the
\* folder lib/lua holds libs files.
GenerateCode(libs) ==
    /\ codegen.status = "idle"
    /\ codegen' = [codegen EXCEPT !.status = "pending", !.phase = "mkdir",
                                  !.libs = libs]
    /\ UNCHANGED <<processes, numProcesses, allLoadedEntries, channel, stored,
                   call, prev, written, nCalls, diagrams, interp>>
    /\ UNCHANGED poolVars

\* temp.mkdir calls back with an error.
MkdirFails ==
    /\ codegen.phase = "mkdir"
    /\ codegen' = CodegenRejected(codegen, "mkdir")
    /\ UNCHANGED <<processes, numProcesses, allLoadedEntries, channel, stored,
                   call, prev, written, nCalls, diagrams, interp>>
    /\ UNCHANGED poolVars

\* temp.mkdir made the folder, and architecture.generateFiles throws.
GenerateFilesThrows ==
    /\ codegen.phase = "mkdir"
    /\ codegen' = CodegenRejected(codegen, "generate")
    /\ UNCHANGED <<processes, numProcesses, allLoadedEntries, channel, stored,
                   call, prev, written, nCalls, diagrams, interp>>
    /\ UNCHANGED poolVars

\* temp.mkdir made the folder and generateFiles gave n files: Promise.each
\* starts to write them, and with no file to write it resolves.
MkdirDone(n) ==
    /\ codegen.phase = "mkdir"
    /\ codegen' =
           IF n = 0
           THEN SeriesNext([codegen EXCEPT !.phase = "generated", !.files = 0])
           ELSE [codegen EXCEPT !.phase = "generated", !.files = n, !.at = 0]
    /\ UNCHANGED <<processes, numProcesses, allLoadedEntries, channel, stored,
                   call, prev, written, nCalls, diagrams, interp>>
    /\ UNCHANGED poolVars

\* fs.writeFile of a generated file calls back: totalFiles was counted up
\* when the write was started.
WriteGenerated(ok) ==
    /\ codegen.phase = "generated"
    /\ LET c == [codegen EXCEPT !.totalFiles = @ + 1, !.at = @ + 1]
           w == [c EXCEPT !.folder = @ \cup {GeneratedFile(c.at)}]
       IN  codegen' =
               IF ~ok
               THEN WriteRejected(c)
               ELSE IF w.at = w.files THEN SeriesNext(w) ELSE w
    /\ UNCHANGED <<processes, numProcesses, allLoadedEntries, channel, stored,
                   call, prev, written, nCalls, diagrams, interp>>
    /\ UNCHANGED poolVars

\* fs.readFile of a library file calls back.
ReadLibrary(ok) ==
    /\ codegen.phase \in {"library", "ebLibrary"}
    /\ codegen.reading
    /\ codegen' =
           IF ~ok
           THEN CodegenRejected(codegen, "readLibrary")
           ELSE [codegen EXCEPT !.totalFiles = @ + 1, !.reading = FALSE]
    /\ UNCHANGED <<processes, numProcesses, allLoadedEntries, channel, stored,
                   call, prev, written, nCalls, diagrams, interp>>
    /\ UNCHANGED poolVars

\* fs.writeFile of a library file calls back.
WriteLibrary(ok) ==
    /\ codegen.phase \in {"library", "ebLibrary"}
    /\ ~codegen.reading
    /\ LET c == [codegen EXCEPT !.at = @ + 1, !.reading = TRUE,
                                !.folder = @ \cup {LibraryFile(codegen.at + 1)}]
       IN  codegen' =
               IF ~ok
               THEN CodegenRejected(codegen, "writeLibrary")
               ELSE IF c.at = c.libs THEN SeriesNext(c) ELSE c
    /\ UNCHANGED <<processes, numProcesses, allLoadedEntries, channel, stored,
                   call, prev, written, nCalls, diagrams, interp>>
    /\ UNCHANGED poolVars

(***************************************************************************)
(* EBStringInterpretation.transformValueForNeuralNetwork(value, schema).   *)
(***************************************************************************)
\* The character codes of the model: one below asciiLength and one above.
CharCodes == {97, 200}

\* The strings of the model, as sequences of character codes.
Strings == UNION {[1 .. n -> CharCodes] : n \in 0 .. MaxStr}

\* The lists of values a histogram may hold: every value once.
Histograms ==
    {h \in UNION {[1 .. n -> Strings] : n \in 0 .. MaxHist} :
        \A i, j \in 1 .. Len(h) : h[i] = h[j] => i = j}

\* No call of the interpretation: nothing to transform.
NoInterp ==
    [mode |-> "none", values |-> <<>>, value |-> <<>>, done |-> TRUE,
     index |-> 0, characters |-> <<>>, restored |-> FALSE, back |-> <<>>,
     bytes |-> <<>>]

\* A variant of EnumIndex that numbers the known values from 0.
EnumIndexFromZero(index) == index

\* return index + 1
EnumIndex(index) == index + 1

\* transformValueForNeuralNetwork(value, schema), where mode is
\* schema.configuration.interpretation.mode and values are the values of
\* schema.metadata.statistics.valueHistogram.values.
TransformValueForNeuralNetwork(value, mode, values) ==
    IF mode = "classification"
    THEN LET index == IndexOf(values, value)
         IN  IF index = -1 THEN 0 ELSE EnumIndex(index)
    ELSE [characterIndex \in 1 .. Len(value) |->
             [character |-> IF value[characterIndex] >= AsciiLength
                            THEN 0
                            ELSE value[characterIndex]]]

\* transformValueForNeuralNetwork is called with a value and a schema.
TransformCalled(value, mode, values) ==
    /\ interp.mode = "none"
    /\ interp' = [NoInterp EXCEPT !.mode = mode, !.values = values,
                                  !.value = value, !.done = FALSE]
    /\ UNCHANGED <<processes, numProcesses, allLoadedEntries, channel, stored,
                   call, prev, written, nCalls, diagrams, codegen>>
    /\ UNCHANGED poolVars

\* transformValueForNeuralNetwork returns: an index in classification mode,
\* a list of characters otherwise.
TransformValue ==
    /\ ~interp.done
    /\ interp.mode \in {"classification", "sequence"}
    /\ LET output == TransformValueForNeuralNetwork(interp.value, interp.mode,
                                                    interp.values)
       IN  interp' = IF interp.mode = "classification"
                     THEN [interp EXCEPT !.done = TRUE, !.index = output]
                     ELSE [interp EXCEPT !.done = TRUE, !.characters = output]
    /\ UNCHANGED <<processes, numProcesses, allLoadedEntries, channel, stored,
                   call, prev, written, nCalls, diagrams, codegen>>
    /\ UNCHANGED poolVars

\* null, as an entry of an enum of numbers.
Null == -1

\* underscore.range(start, stop): start, start + 1, ..., stop - 1
UnderscoreRange(start, stop) == [i \in 1 .. stop - start |-> start + i - 1]

\* transformSchemaForNeuralNetwork(schema): the enum of the numbers the schema
\* declares, schema.enum in classification mode and the enum of the
\* character property otherwise.
TransformSchemaForNeuralNetwork(mode, values) ==
    IF mode = "classification"
    THEN <<Null>> \o [index \in 1 .. Len(values) |-> index - 1]
    ELSE UnderscoreRange(0, AsciiLength)

\* The buffers handed to the binary interpretation, as sequences of bytes.
ByteValues == {0, 255}

Buffers == UNION {[1 .. n -> ByteValues] : n \in 0 .. MaxStr}

\* EBBinaryInterpretation.transformSchemaForNeuralNetwork(schema): the enum
\* of the byte property.
BinaryTransformSchemaForNeuralNetwork == UnderscoreRange(0, ByteEnumStop)

\* EBBinaryInterpretation.transformValueForNeuralNetwork(value)
BinaryTransformValueForNeuralNetwork(value) ==
    [n \in 1 .. Len(value) |-> [byte |-> value[n]]]

\* The binary interpretation's transformValueForNeuralNetwork is called.
BinaryTransformCalled(value) ==
    /\ interp.mode = "none"
    /\ interp' = [NoInterp EXCEPT !.mode = "binary", !.value = value,
                                  !.done = FALSE]
    /\ UNCHANGED <<processes, numProcesses, allLoadedEntries, channel, stored,
                   call, prev, written, nCalls, diagrams, codegen>>
    /\ UNCHANGED poolVars

\* The binary interpretation's transformValueForNeuralNetwork returns.
BinaryTransformValue ==
    /\ ~interp.done
    /\ interp.mode = "binary"
    /\ interp' = [interp EXCEPT
                     !.done = TRUE,
                     !.bytes = BinaryTransformValueForNeuralNetwork(interp.value)]
    /\ UNCHANGED <<processes, numProcesses, allLoadedEntries, channel, stored,
                   call, prev, written, nCalls, diagrams, codegen>>
    /\ UNCHANGED poolVars

\* null, where a string is expected.
NoValue == <<-1>>

\* undefined, where a string is expected: values[i] for an i outside values.
UndefinedValue == <<-2>>

\* values[index], for a 0-based index.
ValueAt(values, index) ==
    IF index \in 0 .. Len(values) - 1 THEN values[index + 1] ELSE UndefinedValue

\* A variant of BackIndex that takes the network's index as the position.
BackIndexSame(value) == value

\* The 0-based histogram position of the network's index: values[value - 1]
BackIndex(value) == value - 1

\* String.fromCharCode(code): the character of a 16-bit code unit.
FromCharCode(code) == code % 65536

\* transformValueBackFromNeuralNetwork(value, schema), with mode and values
\* as in TransformValueForNeuralNetwork.
TransformValueBackFromNeuralNetwork(value, mode, values) ==
    IF mode = "classification"
    THEN IF value = 0 THEN NoValue ELSE ValueAt(values, BackIndex(value))
    ELSE [i \in 1 .. Len(value) |-> FromCharCode(value[i].character)]

\* transformValueBackFromNeuralNetwork is applied to what
\* transformValueForNeuralNetwork has returned, with the same schema.
TransformValueBack ==
    /\ interp.done
    /\ interp.mode \in {"classification", "sequence"}
    /\ ~interp.restored
    /\ interp' = [interp EXCEPT
                     !.restored = TRUE,
                     !.back = TransformValueBackFromNeuralNetwork(
                                  IF interp.mode = "classification"
                                  THEN interp.index ELSE interp.characters,
                                  interp.mode, interp.values)]
    /\ UNCHANGED <<processes, numProcesses, allLoadedEntries, channel, stored,
                   call, prev, written, nCalls, diagrams, codegen>>
    /\ UNCHANGED poolVars

(***************************************************************************)
(* Specifications.                                                         *)
(***************************************************************************)
\* A pool of numProcesses handshaken workers, nothing loaded, nothing pending.
InitPool ==
    /\ numProcesses \in 1 .. MaxProcs
    /\ processes = [p \in 1 .. numProcesses |-> p]
    /\ allLoadedEntries = <<>>
    /\ channel = [w \in Workers |-> <<>>]
    /\ stored = [w \in Workers |-> {}]
    /\ call = NoCall
    /\ prev = Summary(NoCall)
    /\ written = <<>>
    /\ nCalls = 0
    /\ proc = [w \in Workers |-> IF w <= numProcesses THEN "running" ELSE "none"]
    /\ spawns = [n \in 0 .. MaxProcs - 1 |->
                     IF n < numProcesses THEN "done" ELSE "idle"]
    /\ starts = 1
    /\ killed = FALSE
    /\ pipe = [w \in Workers |-> 0]
    /\ logged = 0
    /\ diagrams = NoDiagrams
    /\ codegen = NoCodegen
    /\ interp = NoInterp

Init == InitPool

\* The residency tracker: loadObject and removeObject against the pool.
Next ==
    \/ \E id \in Ids : LoadObject(id)
    \/ \E id \in Ids : RemoveObject(id)
    \/ \E w \in Workers : WorkerStores(w)
    \/ \E w \in Workers : WorkerForgets(w)
    \/ \E w \in Workers : Deliver(w)
    \/ \E w \in Workers : ExchangeFails(w)

Spec == Init /\ [][Next]_vars

\* The identifier lists handed to processObjects.
IdLists == UNION {[1 .. n -> Ids] : n \in 0 .. MaxLen}

\* The batch dispatcher: processObjects against the pool.
NextEval ==
    \/ \E ids \in IdLists : ProcessObjects(ids)
    \/ \E w \in Workers : WorkerEvaluates(w)
    \/ \E w \in Workers : Deliver(w)
    \/ \E w \in Workers : ExchangeFails(w)

SpecEval == Init /\ [][NextEval]_vars

\* The pool as a whole: broadcasts, unexpected exits and killProcess.
NextPool ==
    \/ \E id \in Ids : LoadObject(id)
    \/ Reset
    \/ LoadModelFile
    \/ KillProcess
    \/ \E w \in Workers : WorkerStores(w)
    \/ \E w \in Workers : WorkerAnswers(w)
    \/ \E w \in Workers : WorkerCrashes(w)
    \/ \E w \in Workers : ExitEvent(w)
    \/ \E w \in Workers : Deliver(w)
    \/ \E w \in Workers : ExchangeFails(w)

SpecPool == Init /\ [][NextPool]_vars

\* What the orchestrator observes of its workers: replies, logs and exits.
NextEvents ==
    \/ Reset
    \/ \E w \in Workers : WorkerAnswers(w)
    \/ \E w \in Workers : WorkerLogs(w)
    \/ \E w \in Workers : WorkerCrashes(w)
    \/ \E w \in Workers : LogArrives(w)
    \/ \E w \in Workers : ExitEvent(w)
    \/ \E w \in Workers : Deliver(w)
    \/ \E w \in Workers : ExchangeFails(w)

SpecEvents == Init /\ [][NextEvents]_vars

\* An orchestrator on which startProcess has not been called yet.
InitNew ==
    /\ numProcesses \in 1 .. MaxProcs
    /\ processes = <<>>
    /\ allLoadedEntries = <<>>
    /\ channel = [w \in Workers |-> <<>>]
    /\ stored = [w \in Workers |-> {}]
    /\ call = NoCall
    /\ prev = Summary(NoCall)
    /\ written = <<>>
    /\ nCalls = 0
    /\ proc = [w \in Workers |-> "none"]
    /\ spawns = [n \in 0 .. MaxProcs - 1 |-> "idle"]
    /\ starts = 0
    /\ killed = FALSE
    /\ pipe = [w \in Workers |-> 0]
    /\ logged = 0
    /\ diagrams = NoDiagrams
    /\ codegen = NoCodegen
    /\ interp = NoInterp

\* Pool start-up: the spawns, then the handshakes, then a reset of the pool.
NextStart ==
    \/ StartProcess
    \/ \E n \in 0 .. MaxProcs - 1 : SpawnCompletes(n)
    \/ \E n \in 0 .. MaxProcs - 1 : SpawnFails(n)
    \/ Reset
    \/ \E w \in Workers : WorkerAnswers(w)
    \/ \E w \in Workers : Deliver(w)
    \/ \E w \in Workers : ExchangeFails(w)

SpecStart == InitNew /\ [][NextStart]_vars

\* What the orchestrator observes, with the progress the runtime guarantees:
\* replies and events that are there are handled, and a running worker goes
\* on answering.  No handler of the orchestrator fails an exchange when its
\* process ends, so ExchangeFails has no fairness.
SpecEventsFair ==
    /\ Init
    /\ [][NextEvents]_vars
    /\ WF_vars(\E w \in Workers : Deliver(w))
    /\ WF_vars(\E w \in Workers : WorkerAnswers(w))
    /\ WF_vars(\E w \in Workers : LogArrives(w))
    /\ WF_vars(\E w \in Workers : ExitEvent(w))

\* The life of a pool: from its start, through its use, to killProcess.
NextLife ==
    \/ StartProcess
    \/ \E n \in 0 .. MaxProcs - 1 : SpawnCompletes(n)
    \/ \E n \in 0 .. MaxProcs - 1 : SpawnFails(n)
    \/ \E id \in Ids : LoadObject(id)
    \/ \E id \in Ids : RemoveObject(id)
    \/ Reset
    \/ KillProcess
    \/ \E w \in Workers : WorkerStores(w)
    \/ \E w \in Workers : WorkerForgets(w)
    \/ \E w \in Workers : WorkerAnswers(w)
    \/ \E w \in Workers : WorkerCrashes(w)
    \/ \E w \in Workers : ExitEvent(w)
    \/ \E w \in Workers : Deliver(w)
    \/ \E w \in Workers : ExchangeFails(w)

SpecLife == InitNew /\ [][NextLife]_vars

\* The operations on one worker, and reset for the whole pool.
NextSingle ==
    \/ \E kind \in SingleKinds : SingleOp(kind)
    \/ Reset
    \/ \E w \in Workers : WorkerAnswers(w)
    \/ \E w \in Workers : Deliver(w)
    \/ \E w \in Workers : ExchangeFails(w)

SpecSingle == Init /\ [][NextSingle]_vars

\* Every broadcast of the orchestrator, from the start of the pool on.
NextBroadcasts ==
    \/ StartProcess
    \/ \E n \in 0 .. MaxProcs - 1 : SpawnCompletes(n)
    \/ \E id \in Ids : LoadObject(id)
    \/ \E id \in Ids : RemoveObject(id)
    \/ Reset
    \/ LoadModelFile
    \/ \E w \in Workers : WorkerStores(w)
    \/ \E w \in Workers : WorkerForgets(w)
    \/ \E w \in Workers : WorkerAnswers(w)
    \/ \E w \in Workers : Deliver(w)
    \/ \E w \in Workers : ExchangeFails(w)

SpecBroadcasts == InitNew /\ [][NextBroadcasts]_vars

\* An orchestrator as its constructor leaves it, for one process.
InitConstructed == InitNew /\ numProcesses = 1

\* extractNetworkDiagrams against a script folder that changes as it likes.
NextDiagrams ==
    \/ ExtractNetworkDiagrams
    \/ ReaddirFails
    \/ \E files \in Listings : Readdir(files)
    \/ TimerFires
    \/ \E i \in 1 .. Len(FolderFiles) : \E output \in RenderOutputs :
           i <= Len(diagrams.renders) /\ Rendered(i, output)
    \/ \E i \in 1 .. Len(FolderFiles) :
           i <= Len(diagrams.renders) /\ RenderFails(i)

SpecDiagrams == InitConstructed /\ [][NextDiagrams]_vars

\* extractNetworkDiagrams against a script folder that never holds a .dot
\* file and can always be read; the event loop runs every callback.
NextNoDiagrams ==
    \/ ExtractNetworkDiagrams
    \/ \E files \in Listings : DotFiles(files) = <<>> /\ Readdir(files)
    \/ TimerFires

SpecNoDiagrams ==
    InitConstructed /\ [][NextNoDiagrams]_vars /\ WF_vars(NextNoDiagrams)

\* generateCode; the file system calls back on every request.
NextCode ==
    \/ \E libs \in 0 .. MaxLibs : GenerateCode(libs)
    \/ MkdirFails
    \/ GenerateFilesThrows
    \/ \E n \in 0 .. MaxFiles : MkdirDone(n)
    \/ \E ok \in BOOLEAN : WriteGenerated(ok)
    \/ \E ok \in BOOLEAN : ReadLibrary(ok)
    \/ \E ok \in BOOLEAN : WriteLibrary(ok)

SpecCode == InitConstructed /\ [][NextCode]_vars /\ WF_vars(NextCode)

\* The interpretations: transformValueForNeuralNetwork on every value, mode
\* and histogram, and transformValueBackFromNeuralNetwork on its output.
NextString ==
    \/ \E value \in Strings : \E mode \in {"classification", "sequence"} :
           \E values \in Histograms : TransformCalled(value, mode, values)
    \/ TransformValue
    \/ TransformValueBack
    \/ \E value \in Buffers : BinaryTransformCalled(value)
    \/ BinaryTransformValue

SpecString == InitConstructed /\ [][NextString]_vars

\* A caller that makes one call after the other: processObjects, then resets.
NextSeq ==
    \/ \E ids \in IdLists : ProcessObjects(ids)
    \/ Reset
    \/ \E w \in Workers : WorkerEvaluates(w)
    \/ \E w \in Workers : WorkerAnswers(w)
    \/ \E w \in Workers : Deliver(w)
    \/ \E w \in Workers : ExchangeFails(w)

SpecSeq == Init /\ [][NextSeq]_vars


(***************************************************************************)
(* Properties of processObjects, checked under SpecEval.                   *)
(***************************************************************************)
Evaluating == call.kind = "processObjects"

PoolSize == Len(processes)

\* The ids of L that round-robin gives pool position p of n, in L's order.
Shard(L, n, p) ==
    [k \in 1 .. Cardinality({i \in 0 .. Len(L) - 1 : i % n = p}) |->
        L[p + (k - 1) * n + 1]]

\* The ids of the objects of a reply, in order.
IdsOf(objects) == [i \in 1 .. Len(objects) |-> objects[i].id]

\* Every position that was asked resolved with one object per requested sample.
AnsweredInFull ==
    \A j \in 1 .. Len(call.results) :
        call.results[j] # EmptyResult
            => IdsOf(call.results[j].objects) = call.batches[j]

\* Whether some reply of the call returned an object for id.
Returned(id) ==
    \E j \in 1 .. Len(call.results) : id \in Range(IdsOf(call.results[j].objects))

\* C1: when every worker answers with one object per requested sample,
\* processObjects(L) resolves with a list as long as L whose i-th entry is the
\* object whose id is L[i], for every pool size and every L, repeated ids included.
C1_ResultInOrderOfIds ==
    (Evaluating /\ call.status = "ok" /\ AnsweredInFull)
        => /\ Len(call.result) = Len(call.ids)
           /\ \A i \in 1 .. Len(call.ids) : call.result[i].id = call.ids[i]

C1_Witness ==
    /\ Evaluating /\ call.status = "ok" /\ AnsweredInFull
    /\ PoolSize = 2
    /\ Len(call.ids) = 4
    /\ call.ids[1] = call.ids[2] /\ call.ids[3] # call.ids[1]
    /\ Len(call.result) = 4

\* C2: processObjects(L) sends L[i] in the samples list of pool position
\* i mod N, and each samples list keeps the relative order of L.
C2_RoundRobinShards ==
    Evaluating
        => /\ Len(call.batches) = PoolSize
           /\ \A i \in 0 .. Len(call.ids) - 1 :
                  \E k \in 1 .. Len(written) :
                      /\ written[k].to = i % PoolSize
                      /\ call.ids[i + 1] \in Range(written[k].msg.samples)
           /\ \A k \in 1 .. Len(written) :
                  /\ written[k].msg.type = "evaluate"
                  /\ written[k].msg.samples = Shard(call.ids, PoolSize, written[k].to)
           /\ \A w \in Workers : \A n \in 1 .. Len(channel[w]) :
                  channel[w][n].call = nCalls
                      => /\ At(channel[w][n].slot) = w
                         /\ channel[w][n].msg.samples
                                = Shard(call.ids, PoolSize, channel[w][n].slot)

C2_Witness ==
    /\ Evaluating
    /\ PoolSize = 3
    /\ Len(call.ids) = 4
    /\ call.ids[1] # call.ids[4]
    /\ written = <<Written(0, Message("evaluate", 0, <<call.ids[1], call.ids[4]>>)),
                   Written(1, Message("evaluate", 0, <<call.ids[2]>>)),
                   Written(2, Message("evaluate", 0, <<call.ids[3]>>))>>
    /\ call.status = "ok" /\ IdsOf(call.result) = call.ids

\* C3: no evaluate message has an empty samples list, a position with no
\* samples gets no message, exactly min(N, |L|) messages are written, and
\* processObjects([]) writes nothing and resolves with [].
C3_NoEmptyEvaluate ==
    Evaluating
        => /\ \A k \in 1 .. Len(written) : written[k].msg.samples # <<>>
           /\ \A p \in 0 .. PoolSize - 1 :
                  Shard(call.ids, PoolSize, p) = <<>>
                      => /\ \A k \in 1 .. Len(written) : written[k].to # p
                         /\ \A n \in 1 .. Len(channel[At(p)]) :
                                channel[At(p)][n].call # nCalls
           /\ Len(written) = Min(PoolSize, Len(call.ids))
           /\ call.ids = <<>>
                  => /\ written = <<>>
                     /\ call.status = "ok"
                     /\ call.result = <<>>
                     /\ \A w \in Workers : \A n \in 1 .. Len(channel[w]) :
                            channel[w][n].call # nCalls

C3_Witness ==
    /\ Evaluating
    /\ PoolSize = 2
    /\ call.ids = <<>>
    /\ written = <<>>
    /\ call.status = "ok" /\ call.result = <<>>

\* The pool positions whose evaluate exchange of this call is outstanding.
Outstanding ==
    {p \in 0 .. PoolSize - 1 :
        \E n \in 1 .. Len(channel[At(p)]) :
            channel[At(p)][n].call = nCalls /\ channel[At(p)][n].slot = p}

\* C4: the evaluate exchanges of all non-empty samples lists are issued at
\* once: as long as no reply has been delivered and no exchange has failed,
\* min(N, |L|) exchanges are outstanding, one per distinct worker.
C4_ConcurrentEvaluate ==
    (Evaluating /\ call.acks = {} /\ call.rejected = {})
        => /\ Cardinality(Outstanding) = Min(PoolSize, Len(call.ids))
           /\ \A p \in Outstanding :
                  Cardinality({n \in 1 .. Len(channel[At(p)]) :
                                  channel[At(p)][n].call = nCalls}) = 1
           /\ Len(written) = Cardinality(Outstanding)

C4_Witness ==
    /\ Evaluating /\ Running
    /\ PoolSize = 3
    /\ Len(call.ids) = 4
    /\ Outstanding = {0, 1, 2}
    /\ \A p \in Outstanding : \A n \in 1 .. Len(channel[At(p)]) :
           channel[At(p)][n].reply = NoReply

\* C5: when every evaluate exchange completed, processObjects resolves even
\* if no worker returned an object for some requested id: the result is as
\* long as L, a slot whose id was returned holds that id's object, and a slot
\* whose id was not returned is undefined.
C5_MissingIsUndefined ==
    (Evaluating /\ AllAnswered(call.results))
        => /\ call.status = "ok"
           /\ Len(call.result) = Len(call.ids)
           /\ \A i \in 1 .. Len(call.ids) :
                  IF Returned(call.ids[i])
                  THEN call.result[i].id = call.ids[i]
                  ELSE call.result[i] = Undefined

C5_Witness ==
    /\ Evaluating /\ call.status = "ok"
    /\ PoolSize = 2
    /\ Len(call.ids) = 3
    /\ ~Returned(call.ids[1]) /\ call.result[1] = Undefined
    /\ Returned(call.ids[2]) /\ call.result[2].id = call.ids[2]


(***************************************************************************)
(* Properties of loadObject and removeObject, checked under Spec.          *)
(***************************************************************************)
Loading == call.kind = "loadObject"

Removing == call.kind = "removeObject"

Positions == 0 .. PoolSize - 1

\* The written messages are msg, to the pool positions 0, 1, 2, ... in order.
WrittenInPoolOrder(msg) ==
    \A k \in 1 .. Len(written) : written[k] = Written(k - 1, msg)

\* list without the first occurrence of id (list itself when id is not in it).
WithoutFirst(list, id) ==
    IF id \in Range(list)
    THEN LET i == CHOOSE i \in 1 .. Len(list) :
                      list[i] = id /\ \A j \in 1 .. i - 1 : list[j] # id
         IN  [j \in 1 .. Len(list) - 1 |-> IF j < i THEN list[j] ELSE list[j + 1]]
    ELSE list

\* C6: loadObject(id) writes one store message carrying id to every worker,
\* and the residency list gets id only after all N workers have answered
\* stored: a changed list means every position has acknowledged.
C6_LoadedOnlyAfterAllStored ==
    Loading
        => /\ WrittenInPoolOrder(Message("store", call.id, <<>>))
           /\ call.status = "ok"
                  => /\ Len(written) = PoolSize
                     /\ allLoadedEntries = Append(call.before, call.id)
           /\ allLoadedEntries # call.before
                  => /\ call.acks = Positions
                     /\ call.status = "ok"
           /\ call.acks # Positions => allLoadedEntries = call.before

C6_Witness ==
    /\ Loading /\ call.status = "ok"
    /\ PoolSize = 3
    /\ call.acks = {0, 1, 2}
    /\ Len(written) = 3
    /\ call.id \in Range(allLoadedEntries) /\ call.id \notin Range(call.before)

\* C7: removeObject(id) writes one forget message for id to every worker and
\* removes id from the residency list only after all N workers have answered
\* forgotten; while a reply is missing the list is as it was, id included.
C7_RemovedOnlyAfterAllForgotten ==
    Removing
        => /\ WrittenInPoolOrder(Message("forget", call.id, <<>>))
           /\ call.status = "ok" => Len(written) = PoolSize
           /\ call.acks # Positions => allLoadedEntries = call.before
           /\ allLoadedEntries # call.before => call.acks = Positions
           /\ (call.status = "ok" /\ call.id \in Range(call.before))
                  => allLoadedEntries = WithoutFirst(call.before, call.id)

C7_Witness ==
    /\ Removing /\ Running
    /\ PoolSize = 3
    /\ call.acks = {0, 1}
    /\ channel[At(2)] # <<>> /\ Head(channel[At(2)]).reply # NoReply
    /\ call.id \notin stored[At(2)]
    /\ call.id \in Range(allLoadedEntries)

\* C8: with nothing resident, a successful loadObject(id) followed at once by
\* a successful removeObject(id) leaves the residency list empty and no
\* worker holding id.
C8_LoadThenRemoveIsEmpty ==
    (/\ Removing /\ call.status = "ok"
     /\ prev.kind = "loadObject" /\ prev.status = "ok"
     /\ prev.id = call.id /\ prev.preEmpty)
        => /\ allLoadedEntries = <<>>
           /\ \A p \in Positions : stored[At(p)] = {}

C8_Witness ==
    /\ Removing /\ call.status = "ok"
    /\ prev.kind = "loadObject" /\ prev.status = "ok"
    /\ prev.id = call.id /\ prev.preEmpty
    /\ PoolSize = 3
    /\ call.before = <<call.id>>
    /\ allLoadedEntries = <<>>

\* C9: in every quiescent state reached through loadObject and removeObject
\* calls that all succeeded, every worker holds the same object ids, and they
\* are the ids of the residency list.
C9_WorkersMirrorResidency ==
    (~Running /\ AllSucceeded)
        => \A p \in Positions : stored[At(p)] = Range(allLoadedEntries)

\* Whether position p's worker has applied the running broadcast.
Applied(p) ==
    IF Loading THEN call.id \in stored[At(p)] ELSE call.id \notin stored[At(p)]

\* C10: when the store or forget exchange of position k fails, the operation
\* is reported failed, the residency list is as before the call, no message
\* of the operation goes to a position after k, and the positions before k
\* have applied it.
C10_FailedBroadcastStops ==
    ((Loading \/ Removing) /\ call.rejected # {})
        => /\ call.status = "failed"
           /\ call.rejected = {call.pos}
           /\ allLoadedEntries = call.before
           /\ Len(written) = call.pos + 1
           /\ WrittenInPoolOrder(RequestOf(call.kind, call.id))
           /\ \A p \in Positions : \A n \in 1 .. Len(channel[At(p)]) :
                  channel[At(p)][n].call # nCalls
           /\ \A p \in 0 .. call.pos - 1 : p \in call.acks /\ Applied(p)

C10_Witness ==
    /\ Loading /\ call.status = "failed"
    /\ PoolSize = 3
    /\ call.rejected = {1}
    /\ call.id \in stored[At(0)]
    /\ call.id \notin stored[At(2)]
    /\ call.id \notin Range(allLoadedEntries)
    /\ Len(written) = 2

(***************************************************************************)
(* Properties of reset, loadModelFile and killProcess, checked under       *)
(* SpecPool.                                                               *)
(***************************************************************************)
Resetting == call.kind = "reset"

\* C11: reset() leaves residency unaffected: it writes reset messages only,
\* and the residency list is, in every state of the call, the list the call
\* found.
C11_ResetKeepsResidency ==
    Resetting
        => /\ allLoadedEntries = call.before
           /\ \A k \in 1 .. Len(written) :
                  written[k].msg = Message("reset", 0, <<>>)

C11_Witness ==
    /\ Resetting /\ call.status = "ok"
    /\ PoolSize = 2
    /\ Len(written) = 2
    /\ allLoadedEntries = <<1>>
    /\ \A p \in Positions : stored[At(p)] = {1}

\* The request and the reply type of reset() and of loadModelFile().
RequestTypeOfCall == IF Resetting THEN "reset" ELSE "load"

ReplyTypeOfCall == IF Resetting THEN "resetCompleted" ELSE "loaded"

\* The exchanges of the current call that are pending on position p's channel.
PendingAt(p) ==
    {n \in 1 .. Len(channel[At(p)]) :
        channel[At(p)][n].call = nCalls /\ channel[At(p)][n].slot = p}

\* C20: reset() and loadModelFile() write one request (reset / load) to the
\* workers in pool order, each expecting resetCompleted / loaded; success is
\* reported only when every worker got exactly one request and answered it,
\* and a failed exchange makes the operation fail.
C20_OneRequestPerWorker ==
    call.kind \in {"reset", "loadModelFile"}
        => /\ WrittenInPoolOrder(Message(RequestTypeOfCall, 0, <<>>))
           /\ Len(written) <= PoolSize
           /\ \A p \in Positions : \A n \in PendingAt(p) :
                  channel[At(p)][n].expect = ReplyTypeOfCall
           /\ call.status = "ok"
                  => /\ Len(written) = PoolSize
                     /\ call.acks = Positions
                     /\ call.rejected = {}
           /\ call.rejected # {} => call.status = "failed"

C20_Witness ==
    /\ call.kind = "loadModelFile" /\ call.status = "ok"
    /\ prev.kind = "reset" /\ prev.status = "failed"
    /\ PoolSize = 3
    /\ call.acks = {0, 1, 2}
    /\ Len(written) = 3

\* C15: killProcess() kills every process of the pool: once it was called no
\* worker of the pool is running; the call itself writes no message and
\* touches no pending exchange, whatever is in flight.
C15_KillEndsEveryWorker ==
    /\ [](killed => \A p \in Positions : ~Alive(At(p)))
    /\ [][(~killed /\ killed')
             => UNCHANGED <<channel, written, call, allLoadedEntries>>]_vars

C15_Witness ==
    /\ killed
    /\ PoolSize = 3
    /\ Running /\ call.acks = {0}
    /\ PendingAt(1) # {}
    /\ \A p \in Positions : proc[At(p)] = "dying"

\* A reply of a worker that killProcess has ended is taken from its channel.
LateReply ==
    /\ killed
    /\ \E p \in Positions :
           /\ ~Alive(At(p))
           /\ channel[At(p)] # <<>>
           /\ Head(channel[At(p)]).reply # NoReply
           /\ channel'[At(p)] = Tail(channel[At(p)])
    /\ call'.rejected = call.rejected

\* C16: a reply that arrives after killProcess has ended its worker is
\* discarded: it changes neither the residency list nor the operation in
\* progress, and no further message is written.
C16_LateReplyDiscarded ==
    [][LateReply => UNCHANGED <<allLoadedEntries, call, written>>]_vars

(***************************************************************************)
(* Properties of the pool's size, checked under SpecLife.                  *)
(***************************************************************************)
\* Whether every spawn of index 0 .. numProcesses - 1 has completed.
AllSpawned == \A n \in 0 .. numProcesses - 1 : spawns[n] = "done"

\* Whether the one startProcess call has seen every spawn complete, which
\* its success requires.
Started == starts = 1 /\ AllSpawned

Starting == call.kind = "startProcess"

\* C12: startProcess writes no handshake before every one of its spawns has
\* completed, and reports success only after all numProcesses workers are
\* spawned and every handle of the pool has answered its handshake.
C12_HandshakeAfterAllSpawns ==
    Starting
        => /\ written # <<>> => AllSpawned
           /\ WrittenInPoolOrder(Message("handshake", 0, <<>>))
           /\ call.status = "ok"
                  => /\ AllSpawned
                     /\ PoolSize >= numProcesses
                     /\ Len(written) = PoolSize
                     /\ call.acks = Positions

C12_Witness ==
    /\ Starting /\ call.status = "ok"
    /\ numProcesses = 3
    /\ processes = <<3, 1, 2>>
    /\ call.acks = {0, 1, 2}

\* C13: when a spawn or a handshake fails, startProcess fails and no worker
\* that the call spawned is running or held in the pool.
C13_NoPartialPool ==
    (Starting /\ call.status = "failed")
        => /\ processes = <<>>
           /\ \A w \in Workers : ~Alive(w)

(***************************************************************************)
(* Properties of the channel's events, checked under SpecEvents and        *)
(* SpecEventsFair.                                                         *)
(***************************************************************************)
\* A log message is read from some worker's output.
LogRead == \E w \in Workers : pipe'[w] < pipe[w]

\* The exchange at the head of position p's channel is resolved successfully.
Resolved(p) ==
    /\ channel[At(p)] # <<>>
    /\ channel'[At(p)] = Tail(channel[At(p)])
    /\ p \in call'.acks \ call.acks

\* C18: a pending exchange is resolved only by a message of its expected
\* type: a log message goes to logError and leaves every exchange pending,
\* and an exit, error or disconnect of a process is logged and resolves
\* nothing.
C18_OnlyExpectedTypeResolves ==
    [][/\ LogRead
           => /\ logged' = logged + 1
              /\ UNCHANGED <<channel, call, written, allLoadedEntries>>
       /\ proc' # proc
           => /\ UNCHANGED <<channel, call, written, allLoadedEntries>>
              /\ (\A w \in Workers : proc'[w] = "gone" => proc[w] = "gone")
                     \/ logged' = logged + 1
       /\ \A p \in Positions :
              Resolved(p)
                  => Head(channel[At(p)]).reply.type
                         = Head(channel[At(p)]).expect]_vars

C18_Witness ==
    /\ nCalls = 1 /\ Running /\ call.acks = {}
    /\ PoolSize = 1
    /\ logged = 1
    /\ Alive(At(0)) /\ pipe[At(0)] = 0
    /\ channel[At(0)] # <<>> /\ Head(channel[At(0)]).reply = NoReply

\* Worker w has ended while an exchange the operation waits for is pending.
EndedWhilePending(w) ==
    /\ ~Alive(w)
    /\ channel[w] # <<>>
    /\ Head(channel[w]).reply = NoReply
    /\ Awaited(Head(channel[w]))

\* C17: when a worker exits or errors while an exchange is pending, the
\* operation that waits for the exchange eventually reports an error.
C17_EndedWorkerFailsOperation ==
    \A w \in Workers :
        EndedWhilePending(w) ~> (call.status = "failed")

(***************************************************************************)
(* Properties of a sequential caller, checked under SpecSeq.               *)
(***************************************************************************)
\* C19: with a caller that invokes an operation only after the one before
\* has reported, every channel has at most one exchange outstanding.
C19_OneExchangePerChannel ==
    \A w \in Workers : Len(channel[w]) <= 1

(***************************************************************************)
(* Properties of the single-worker operations, checked under SpecSingle.   *)
(***************************************************************************)
\* The request types of the single-worker operations.
SingleRequests == {"evaluateBatch", "iteration", "prepareBatch", "save", "stats"}

Saving == call.kind = "getTorchModelFileStream"

\* C21: processBatch, executeTrainingIteration, prepareBatch,
\* getTorchModelFileStream and getInternalStatistics write their one request
\* to pool position 0, and no channel of a position 1 .. N - 1 ever holds a
\* request of these operations, so save is asked of position 0 only.
C21_OnlyPositionZero ==
    /\ call.kind \in SingleKinds
           => /\ Len(written) <= 1
              /\ \A k \in 1 .. Len(written) :
                     written[k].to = 0 /\ written[k].msg.type \in SingleRequests
    /\ \A p \in 1 .. PoolSize - 1 : \A n \in 1 .. Len(channel[At(p)]) :
           channel[At(p)][n].msg.type \notin SingleRequests

C21_Witness ==
    /\ PoolSize = 3
    /\ prev.kind = "reset" /\ prev.status = "ok"
    /\ call.kind = "prepareBatch" /\ call.status = "ok"
    /\ written = <<Written(0, Message("prepareBatch", 0, <<>>))>>

\* C22: getTorchModelFileStream hands out the read stream over model.t7 only
\* when position 0 has answered the save request with saved; when the save
\* exchange fails the operation fails and there is no stream.
C22_StreamAfterSaved ==
    Saving
        => /\ call.result # <<>>
                  => /\ call.status = "ok" /\ 0 \in call.acks
                     /\ written = <<Written(0, Message("save", 0, <<>>))>>
           /\ call.status = "ok" => call.result = <<Stream>>
           /\ call.rejected # {}
                  => call.status = "failed" /\ call.result = <<>>

C22_Witness ==
    /\ Saving /\ call.status = "ok" /\ call.result = <<Stream>>
    /\ prev.kind = "getTorchModelFileStream" /\ prev.status = "failed"
    /\ PoolSize = 2

(***************************************************************************)
(* Properties of extractNetworkDiagrams, checked under SpecNoDiagrams and  *)
(* SpecDiagrams.                                                           *)
(***************************************************************************)
\* The time spent in the delays of the call, in milliseconds.
Elapsed == diagrams.delays * TimeoutBetweenRetries

\* C23: with no .dot file in the folder during the whole call,
\* extractNetworkDiagrams fails once, after exactly 100 listings each followed
\* by the delay of 150 ms; it never fails earlier, never lists a 101st time,
\* and it does fail.
C23_FailsAfterTheBudget ==
    /\ [](/\ diagrams.attempts <= RetryAttempts
          /\ diagrams.failures <= 1
          /\ diagrams.status # "ok"
          /\ diagrams.status \in {"listing", "waiting"}
                 => diagrams.delays = diagrams.attempts - 1
          /\ diagrams.status = "failed"
                 => /\ diagrams.attempts = RetryAttempts
                    /\ diagrams.delays = RetryAttempts
                    /\ Elapsed = RetryAttempts * TimeoutBetweenRetries
                    /\ diagrams.failures = 1)
    /\ <>(diagrams.status = "failed")

C23_Witness ==
    /\ diagrams.status = "failed"
    /\ diagrams.onlyEmpty
    /\ diagrams.attempts = 100
    /\ Elapsed = 15000

\* The files of the current listing that dot has rendered.
RenderedFiles ==
    {i \in 1 .. Len(diagrams.renders) :
        diagrams.renders[i] \notin {Pending, RenderError}}

RECURSIVE FromBase64(_)
\* The bytes a base64 text stands for.
FromBase64(text) ==
    IF Len(text) < 4
    THEN <<>>
    ELSE LET first == text[1] * 4 + text[2] \div 16
             second == (text[2] % 16) * 16 + text[3] \div 4
             third == (text[3] % 4) * 64 + text[4]
         IN  IF text[3] = Pad
             THEN <<first>>
             ELSE IF text[4] = Pad
             THEN <<first, second>>
             ELSE <<first, second, third>> \o FromBase64(SubSeq(text, 5, Len(text)))

\* C24: when dot fails on one file of a listing while it has rendered
\* another, the call still delivers the rendered output of the other file.
C24_RenderFailureIsolated ==
    (diagrams.cause = "renderError" /\ RenderedFiles # {})
        => /\ diagrams.status = "ok"
           /\ \A i \in RenderedFiles :
                  \E k \in 1 .. Len(diagrams.result) :
                      /\ diagrams.result[k].file = diagrams.listing[i]
                      /\ FromBase64(diagrams.result[k].data) = diagrams.renders[i]

\* C25: the attempt whose listing holds a .dot file is the last one, and when
\* every rendering succeeds the call resolves with one record per .dot file
\* of that listing, in listing order: the file's name and the base64 text of
\* its rendered output.
C25_StopsAtFirstListing ==
    /\ [][diagrams.status = "rendering"
             => diagrams'.attempts = diagrams.attempts]_vars
    /\ [](diagrams.status = "ok"
             => /\ Len(diagrams.result) = Len(diagrams.listing)
                /\ \A i \in 1 .. Len(diagrams.listing) :
                       /\ diagrams.result[i].file = diagrams.listing[i]
                       /\ IsDotFile(diagrams.result[i].file)
                       /\ FromBase64(diagrams.result[i].data)
                              = diagrams.renders[i])

\* C30: between two consecutive attempts the delay of 150 ms elapses,
\* whatever made the earlier attempt fail, and there are at most 100 attempts.
C30_DelayBetweenAttempts ==
    /\ diagrams.attempts <= RetryAttempts
    /\ diagrams.attempts >= 1 => diagrams.delays >= diagrams.attempts - 1

(***************************************************************************)
(* Properties of generateCode, checked under SpecCode.                     *)
(***************************************************************************)
\* C26: every failure inside generateCode reaches the caller: after a failed
\* mkdir, generateFiles or write the promise is eventually rejected, and
\* success is never reported after a failure.
C26_FailuresPropagate ==
    /\ [](codegen.status = "resolved" => codegen.failure = "none")
    /\ (codegen.failure # "none") ~> (codegen.status = "rejected")

(***************************************************************************)
(* Properties of the process events, checked under SpecEvents.             *)
(***************************************************************************)
\* The exit of some worker's process is reported to the orchestrator.
EventSeen == \E w \in Workers : proc[w] = "dying" /\ proc'[w] = "gone"

\* C27: on the close, exit, error or disconnect of a worker the orchestrator
\* logs and does nothing else: no process is started, no message is written,
\* no exchange is touched, and the pool and the residency list stay.
C27_EventsAreOnlyLogged ==
    [][EventSeen
          => /\ logged' = logged + 1
             /\ UNCHANGED <<processes, allLoadedEntries, channel, written,
                            call, nCalls, spawns, starts>>
             /\ \A w \in Workers : proc'[w] = "running" => proc[w] = "running"]_vars

C27_Witness ==
    /\ PoolSize = 2
    /\ proc[At(0)] = "gone" /\ proc[At(1)] = "gone"
    /\ logged = 2
    /\ Running /\ call.acks = {0}
    /\ channel[At(1)] # <<>>

(***************************************************************************)
(* Properties of transformValueForNeuralNetwork, checked under SpecString. *)
(***************************************************************************)
\* C28: in classification mode a value that is not among the histogram's
\* values gets index 0, and the value at 0-based histogram position k gets
\* index k + 1, so a known value never gets index 0.
C28_UnknownIsZero ==
    (interp.done /\ interp.mode = "classification")
        => /\ interp.value \notin Range(interp.values) => interp.index = 0
           /\ \A k \in 0 .. Len(interp.values) - 1 :
                  interp.values[k + 1] = interp.value => interp.index = k + 1
           /\ interp.value \in Range(interp.values) => interp.index # 0

C28_Witness ==
    /\ interp.done /\ interp.mode = "classification"
    /\ Len(interp.values) = 2
    /\ interp.values[2] = interp.value
    /\ interp.index = 2

(***************************************************************************)
(* Properties of all broadcasts, checked under SpecBroadcasts.             *)
(***************************************************************************)
BroadcastKinds ==
    {"loadObject", "removeObject", "reset", "loadModelFile", "startProcess"}

\* The exchanges of the current call that are outstanding, on any channel.
OutstandingOfCall ==
    {wn \in Workers \X (1 .. MaxProcs + MaxCalls) :
        /\ wn[2] <= Len(channel[wn[1]])
        /\ channel[wn[1]][wn[2]].call = nCalls}

\* C29: a broadcast asks one worker at a time, in pool order: the request to
\* position k + 1 is written only when position k has delivered its reply,
\* so at most one exchange of the broadcast is outstanding.
C29_OneWorkerAtATime ==
    call.kind \in BroadcastKinds
        => /\ \A k \in 1 .. Len(written) :
                  /\ written[k].to = k - 1
                  /\ k > 1 => k - 2 \in call.acks
           /\ Cardinality(OutstandingOfCall) <= 1

C29_Witness ==
    /\ call.kind = "startProcess" /\ Running
    /\ PoolSize = 3
    /\ call.acks = {0, 1}
    /\ Len(written) = 3
    /\ Cardinality(OutstandingOfCall) = 1

(***************************************************************************)
(* removeObject of an identifier that is not resident, checked under Spec. *)
(***************************************************************************)
\* C31: a successful removeObject(id) never removes an identifier other than
\* id from the residency list; when id is not in the list, the list is the
\* one the call found.
C31_RemovesOnlyItsId ==
    (Removing /\ call.status = "ok")
        => /\ call.id \notin Range(call.before)
                  => allLoadedEntries = call.before
           /\ \A other \in Range(call.before) \ {call.id} :
                  other \in Range(allLoadedEntries)

(***************************************************************************)
(* The moment processObjects reports, checked under SpecEval.              *)
(***************************************************************************)
\* C32: processObjects reports its outcome, success or failure, only after
\* every evaluate exchange it issued has completed or failed: once the call
\* has reported, none of its exchanges is outstanding on any worker.
C32_ReportsAfterAllExchanges ==
    (Evaluating /\ call.status \in {"ok", "failed"})
        => OutstandingOfCall = {}

(***************************************************************************)
(* processObjects and the order in which replies arrive, checked under     *)
(* SpecEval.                                                               *)
(***************************************************************************)
\* The pool positions whose worker returned an object for id.
HoldersOf(id) ==
    {p \in Positions :
        \E j \in 1 .. Len(call.results) :
            Object(id, At(p)) \in Range(call.results[j].objects)}

\* The result list as the replies' contents alone give it: for every id of
\* the list the object of the last pool position that returned one.
ResultOfContents ==
    [i \in 1 .. Len(call.ids) |->
        LET holders == HoldersOf(call.ids[i])
        IN  IF holders = {}
            THEN Undefined
            ELSE Object(call.ids[i],
                        At(CHOOSE p \in holders : \A q \in holders : q <= p))]

\* Once processObjects has reported, the report stands: nothing but the next
\* call of the caller changes it.
ReportedOnce ==
    (Evaluating /\ call.status \in {"ok", "failed"} /\ nCalls' = nCalls)
        => /\ call.status' = call.status
           /\ call.result' = call.result

\* C33: the result of processObjects(L) does not depend on the order in which
\* the evaluationCompleted replies arrive: it is given by the pool, L and the
\* contents of each worker's reply, and the caller is notified exactly once.
C33_ArrivalOrderIsIrrelevant ==
    /\ []((Evaluating /\ call.status = "ok") => call.result = ResultOfContents)
    /\ [][ReportedOnce]_vars

\* The replies arrived in the reverse of the pool order.
C33_Witness ==
    /\ Evaluating /\ call.status = "ok"
    /\ PoolSize = 3
    /\ call.order = <<2, 1, 0>>
    /\ call.ids[1] = call.ids[2]
    /\ HoldersOf(call.ids[1]) = {0, 1}
    /\ call.result[1] = Object(call.ids[1], At(1))
    /\ call.result = ResultOfContents

(***************************************************************************)
(* Pool positions and spawn indices, checked under SpecStart.              *)
(***************************************************************************)
\* C34: after startProcess has succeeded, the handle at pool position n is
\* the worker that was launched with index argument n + 1, for every n and
\* for every order in which the concurrent spawns complete.
C34_PositionIsSpawnIndex ==
    (Starting /\ call.status = "ok")
        => \A n \in Positions : At(n) = WorkerOf(n)

(***************************************************************************)
(* The residency list as a set, checked under Spec.                        *)
(***************************************************************************)
\* C35: under any sequence of successful loadObject and removeObject calls
\* the residency list never holds the same identifier more than once.
C35_NoDuplicateIds ==
    AllSucceeded
        => \A i, j \in 1 .. Len(allLoadedEntries) :
               allLoadedEntries[i] = allLoadedEntries[j] => i = j

(***************************************************************************)
(* Operations invoked after killProcess, checked under SpecPool.           *)
(***************************************************************************)
\* An operation is invoked after killProcess has terminated the pool.
InvokedAfterKill == killed /\ nCalls' = nCalls + 1

\* C36: after killProcess has terminated the pool, no later operation of
\* the orchestrator writes a request message to a terminated worker, one
\* whose process has exited.
C36_NoWriteAfterKill ==
    [][InvokedAfterKill
          => \A w \in Workers :
                 proc[w] = "gone" => channel'[w] = channel[w]]_vars

(***************************************************************************)
(* startProcess called again on the same instance, checked under SpecStart.*)
(***************************************************************************)
\* C37: calling startProcess a second time does not grow the pool: after
\* any number of successful startProcess calls the handle list has exactly
\* numProcesses entries, and the handshake broadcast of the call has sent
\* exactly numProcesses requests.
C37_RestartKeepsPoolSize ==
    (Starting /\ call.status = "ok")
        => /\ Len(processes) = numProcesses
           /\ Len(written) = numProcesses

(***************************************************************************)
(* The round trip of the string interpretation, checked under SpecString.  *)
(***************************************************************************)
\* C38: in classification mode the string interpretation round-trips: for
\* every value v among the histogram's values, transforming v for the network
\* and back gives v, and the default index 0 is mapped back to null.
C38_ClassificationRoundTrip ==
    (interp.restored /\ interp.mode = "classification")
        => /\ interp.value \in Range(interp.values) => interp.back = interp.value
           /\ interp.index = 0 => interp.back = NoValue

C38_Witness ==
    /\ interp.restored /\ interp.mode = "classification"
    /\ Len(interp.values) = 2
    /\ interp.values[2] = interp.value
    /\ interp.index = 2
    /\ interp.back = interp.value
    /\ Len(interp.value) = 2 /\ interp.value[1] # interp.value[2]

(***************************************************************************)
(* Produced numbers and declared enums, checked under SpecString.          *)
(***************************************************************************)
\* C39: every number produced by transformValueForNeuralNetwork is a member
\* of the enum declared by the matching transformSchemaForNeuralNetwork: the
\* index in classification mode, every character code in sequence mode, and
\* every byte of the binary interpretation.
C39_OutputInDeclaredEnum ==
    interp.done
        => /\ interp.mode = "classification"
                  => interp.index
                         \in Range(TransformSchemaForNeuralNetwork(
                                       interp.mode, interp.values))
           /\ interp.mode = "sequence"
                  => \A i \in 1 .. Len(interp.characters) :
                         interp.characters[i].character
                             \in Range(TransformSchemaForNeuralNetwork(
                                           interp.mode, interp.values))
           /\ interp.mode = "binary"
                  => \A n \in 1 .. Len(interp.bytes) :
                         interp.bytes[n].byte
                             \in Range(BinaryTransformSchemaForNeuralNetwork)

(***************************************************************************)
(* The file count of generateCode, checked under SpecCode.                 *)
(***************************************************************************)
\* C40: on success generateCode resolves with totalFiles equal to the number
\* of distinct files in the working directory after the call: the generated
\* files plus the library files, each file counted once.
C40_TotalFilesCountsEachOnce ==
    codegen.status = "resolved"
        => /\ codegen.reported = Cardinality(codegen.folder)
           /\ codegen.reported = codegen.files + codegen.libs

=============================================================================
